---- MODULE Spec2Model ----
(***************************************************************************)
(* Playfair cipher (playfair_cipher.py): grid construction, message        *)
(* preparation into digraphs, per-digraph substitution, orchestration.     *)
(*                                                                         *)
(* A Python str is a sequence of one-character strings.  Python indexes    *)
(* from 0 and TLA+ sequences from 1: the operators Slice and At carry the  *)
(* source's 0-based indices over.                                          *)
(***************************************************************************)
EXTENDS Integers, Sequences, FiniteSets, TLC

VARIABLES keyword, message_text, pc, grid, cleaned, i, prepared_chars,
          digraphs, digraph, first_digraph, calls, ciphertext, err

vars == <<keyword, message_text, pc, grid, cleaned, i, prepared_chars,
          digraphs, digraph, first_digraph, calls, ciphertext, err>>

(***************************************************************************)
(* Characters.  str.upper and str.isalpha over the characters the model    *)
(* feeds in: the ASCII letters, a digit, a space, punctuation, and one     *)
(* letter outside A-Z (e-acute, which str.isalpha accepts and str.upper    *)
(* maps to E-acute).                                                       *)
(***************************************************************************)
UpperLetters ==
    <<"A", "B", "C", "D", "E", "F", "G", "H", "I", "J", "K", "L", "M",
      "N", "O", "P", "Q", "R", "S", "T", "U", "V", "W", "X", "Y", "Z">>

LowerLetters ==
    <<"a", "b", "c", "d", "e", "f", "g", "h", "i", "j", "k", "l", "m",
      "n", "o", "p", "q", "r", "s", "t", "u", "v", "w", "x", "y", "z">>

Range(s) == {s[k] : k \in 1..Len(s)}

AsciiLetters == Range(UpperLetters) \cup Range(LowerLetters)

OtherLetters == {"é", "É"}

NonLetters == {" ", "1", "2", "3", "!", "."}

upper(ch) ==
    IF ch \in Range(LowerLetters)
    THEN UpperLetters[CHOOSE k \in 1..Len(LowerLetters) : LowerLetters[k] = ch]
    ELSE IF ch = "é" THEN "É" ELSE ch

isalpha(ch) == ch \in AsciiLetters \cup OtherLetters

\* the replacement of J left out
replaceJ_KeepJ(ch) == ch

\* s.replace('J', 'I') on one character
replaceJ(ch) == IF ch = "J" THEN "I" ELSE ch

RECURSIVE FilterSeq(_, _)
\* ''.join(filter(pred, s)) with pred given as the set of characters it keeps
FilterSeq(s, keep) ==
    IF s = <<>> THEN <<>>
    ELSE IF Head(s) \in keep
         THEN <<Head(s)>> \o FilterSeq(Tail(s), keep)
         ELSE FilterSeq(Tail(s), keep)

AlphaChars == {ch \in AsciiLetters \cup OtherLetters \cup NonLetters : isalpha(ch)}

\* uppercase, keep the alphabetic characters, replace J by I
Clean(text) ==
    LET uppered == [k \in 1..Len(text) |-> upper(text[k])]
        letters == FilterSeq(uppered, AlphaChars)
    IN  [k \in 1..Len(letters) |-> replaceJ(letters[k])]

\* Python's s[lo:hi] (0-based, hi exclusive, cut at the end of s)
Slice(s, lo, hi) ==
    LET top == IF hi < Len(s) THEN hi ELSE Len(s)
    IN  IF lo >= top THEN <<>> ELSE SubSeq(s, lo + 1, top)

(***************************************************************************)
(* create_grid                                                             *)
(***************************************************************************)
GridSize == 5

GridCells == 25

\* only the empty keyword rejected
InvalidKey_EmptyOnly(kw) == kw = <<>>

\* the guard of create_grid: the error is raised on the keyword as given
InvalidKey(kw) == kw = <<>> \/ ~ \E k \in 1..Len(kw) : isalpha(kw[k])

\* repeats of a keyword letter kept
UniqueFrom_KeepRepeats(s, seen) == s

RECURSIVE UniqueFrom(_, _)
\* the letters of s not in seen, each kept at its first occurrence
UniqueFrom(s, seen) ==
    IF s = <<>> THEN <<>>
    ELSE IF Head(s) \in seen
         THEN UniqueFrom(Tail(s), seen)
         ELSE <<Head(s)>> \o UniqueFrom(Tail(s), seen \cup {Head(s)})

unique_keyword(kw) == UniqueFrom(Clean(kw), {})

\* A-Z without J, in the order of the code points
alphabet == FilterSeq(UpperLetters, Range(UpperLetters) \ {"J"})

grid_letters(kw) ==
    unique_keyword(kw)
        \o FilterSeq(alphabet, Range(alphabet) \ Range(unique_keyword(kw)))

create_grid(kw) ==
    [r \in 1..(GridCells \div GridSize) |->
        Slice(grid_letters(kw), (r - 1) * GridSize, (r - 1) * GridSize + GridSize)]

\* grid[r][c] with the source's 0-based indices
At(g, r, c) == g[r + 1][c + 1]

NoGrid == <<>>

(***************************************************************************)
(* Inputs                                                                  *)
(***************************************************************************)
MaxKeyLen == 3

KeyChars == {"Z", "z", "J", "i", "M", "1", "é"}

RECURSIVE SeqsUpTo(_, _)
SeqsUpTo(S, n) ==
    IF n = 0 THEN {<<>>}
    ELSE LET shorter == SeqsUpTo(S, n - 1)
         IN  shorter \cup {Append(s, ch) : s \in shorter, ch \in S}

NamedKeywords ==
    { <<"M", "O", "N", "A", "R", "C", "H", "Y">>,
      <<"B", "A", "L", "L", "O", "O", "N">>,
      <<"J", "A", "Z", "Z">>,
      <<"P", "L", "A", "Y", "F", "A", "I", "R">>,
      <<"E", "X", "A", "M", "P", "L", "E">>,
      <<"S", "E", "C", "R", "E", "T", " ", "1", "2", "3", " ", "K", "E", "Y", ".">>,
      <<"1", "2", "3", "!">> }

Keywords == SeqsUpTo(KeyChars, MaxKeyLen) \cup NamedKeywords

Blank ==
    /\ pc = "start"
    /\ grid = NoGrid
    /\ cleaned = <<>>
    /\ i = 0
    /\ prepared_chars = <<>>
    /\ digraphs = <<>>
    /\ digraph = <<>>
    /\ first_digraph = <<>>
    /\ calls = 0
    /\ ciphertext = <<>>
    /\ err = "none"

(***************************************************************************)
(* create_grid called on a keyword                                         *)
(***************************************************************************)
InitGrid ==
    /\ keyword \in Keywords
    /\ message_text = <<>>
    /\ Blank

CreateGridFails ==
    /\ pc = "start"
    /\ InvalidKey(keyword)
    /\ pc' = "raised"
    /\ err' = "InvalidKey"
    /\ UNCHANGED <<keyword, message_text, grid, cleaned, i, prepared_chars,
                   digraphs, digraph, first_digraph, calls, ciphertext>>

CreateGridReturns ==
    /\ pc = "start"
    /\ ~ InvalidKey(keyword)
    /\ grid' = create_grid(keyword)
    /\ pc' = "grid"
    /\ UNCHANGED <<keyword, message_text, cleaned, i, prepared_chars,
                   digraphs, digraph, first_digraph, calls, ciphertext, err>>

NextGrid == CreateGridFails \/ CreateGridReturns

SpecGrid == InitGrid /\ [][NextGrid]_vars

(***************************************************************************)
(* prepare_message                                                         *)
(***************************************************************************)
\* 'Z' if a == 'X' else 'X'
filler(a) == IF a = "X" THEN "Z" ELSE "X"

\* cleaned[k] with the source's 0-based index
CharAt(s, k) == s[k + 1]

\* the cursor advanced by two past a repeat: the successor is never emitted
ScanStep_SkipSuccessor(cl, idx, buf) ==
    LET a == CharAt(cl, idx)
    IN  IF ~ (idx + 1 < Len(cl))
        THEN [i |-> idx + 1, buf |-> Append(buf, a)]
        ELSE IF a = CharAt(cl, idx + 1)
             THEN [i |-> idx + 2, buf |-> buf \o <<a, filler(a)>>]
             ELSE [i |-> idx + 2, buf |-> buf \o <<a, CharAt(cl, idx + 1)>>]

\* pairwise chunking with no test for a repeat
ScanStep_PairwiseChunks(cl, idx, buf) ==
    LET a == CharAt(cl, idx)
    IN  IF ~ (idx + 1 < Len(cl))
        THEN [i |-> idx + 1, buf |-> Append(buf, a)]
        ELSE [i |-> idx + 2, buf |-> buf \o <<a, CharAt(cl, idx + 1)>>]

\* one iteration of the while loop: the cursor and the buffer after it
ScanStep(cl, idx, buf) ==
    LET a == CharAt(cl, idx)
    IN  IF ~ (idx + 1 < Len(cl))
        THEN [i |-> idx + 1, buf |-> Append(buf, a)]
        ELSE IF a = CharAt(cl, idx + 1)
             THEN [i |-> idx + 1, buf |-> buf \o <<a, filler(a)>>]
             ELSE [i |-> idx + 2, buf |-> buf \o <<a, CharAt(cl, idx + 1)>>]

\* Step 3: pad an odd-length buffer
Pad(buf) ==
    IF Len(buf) % 2 = 1 THEN Append(buf, filler(buf[Len(buf)])) ELSE buf

\* Step 4: cut into slices of two and keep the slices of length two
Split(buf) ==
    LET slices == [k \in 1..((Len(buf) + 1) \div 2) |->
                      Slice(buf, 2 * (k - 1), 2 * (k - 1) + 2)]
    IN  SelectSeq(slices, LAMBDA dg : Len(dg) = 2)

RECURSIVE Scan(_, _, _)
Scan(cl, idx, buf) ==
    IF idx < Len(cl)
    THEN LET step == ScanStep(cl, idx, buf) IN Scan(cl, step.i, step.buf)
    ELSE buf

prepare_message(text) ==
    IF Clean(text) = <<>> THEN <<>> ELSE Split(Pad(Scan(Clean(text), 0, <<>>)))

MaxMsgLen == 4

MsgChars == {"A", "X", "x", "j", "I", "1", "é"}

NamedMessages ==
    { <<"H", "E", "L", "L", "O">>,
      <<"B", "A", "L", "L", "O", "O", "N">>,
      <<"A", "T", "T", "A", "C", "K", "X">>,
      <<"A", "X", "E", "N", "A", "X">>,
      <<"H", "e", "L", "l", "O", " ", "J", "O", "h", "N", "!", " ", "1", "2", "3">>,
      <<"W", "E", " ", "A", "R", "E", " ", "N", "O", "T", " ", "S", "A", "F", "E">>,
      <<"C", "O", "M", "M", "U", "N", "I", "C", "A", "T", "I", "O", "N">> }

Messages == SeqsUpTo(MsgChars, MaxMsgLen) \cup NamedMessages

InitMessage ==
    /\ keyword = <<>>
    /\ message_text \in Messages
    /\ Blank

\* Step 1, and the early return on a text without letters
PrepareClean ==
    /\ pc = "start"
    /\ cleaned' = Clean(message_text)
    /\ pc' = IF Clean(message_text) = <<>> THEN "returned" ELSE "scan"
    /\ UNCHANGED <<keyword, message_text, grid, i, prepared_chars, digraphs,
                   digraph, first_digraph, calls, ciphertext, err>>

ScanIteration ==
    /\ i' = ScanStep(cleaned, i, prepared_chars).i
    /\ prepared_chars' = ScanStep(cleaned, i, prepared_chars).buf
    /\ UNCHANGED <<keyword, message_text, pc, grid, cleaned, digraphs,
                   digraph, first_digraph, calls, ciphertext, err>>

\* b is None
ScanLast ==
    /\ pc = "scan"
    /\ i < Len(cleaned)
    /\ ~ (i + 1 < Len(cleaned))
    /\ ScanIteration

\* a == b
ScanRepeat ==
    /\ pc = "scan"
    /\ i + 1 < Len(cleaned)
    /\ CharAt(cleaned, i) = CharAt(cleaned, i + 1)
    /\ ScanIteration

\* a != b
ScanPair ==
    /\ pc = "scan"
    /\ i + 1 < Len(cleaned)
    /\ CharAt(cleaned, i) # CharAt(cleaned, i + 1)
    /\ ScanIteration

\* Steps 3 and 4, and the return
PadAndSplit ==
    /\ pc = "scan"
    /\ ~ (i < Len(cleaned))
    /\ prepared_chars' = Pad(prepared_chars)
    /\ digraphs' = Split(Pad(prepared_chars))
    /\ pc' = "returned"
    /\ UNCHANGED <<keyword, message_text, grid, cleaned, i, digraph,
                   first_digraph, calls, ciphertext, err>>

NextMessage == PrepareClean \/ ScanLast \/ ScanRepeat \/ ScanPair \/ PadAndSplit

SpecMessage == InitMessage /\ [][NextMessage]_vars

(***************************************************************************)
(* find_coordinates and encrypt_pair                                       *)
(***************************************************************************)
Coords == (0..(GridSize - 1)) \X (0..(GridSize - 1))

Matches(g, ch) == {rc \in Coords : At(g, rc[1], rc[2]) = ch}

\* the ValueError of find_coordinates
NotFound(g, ch) == Matches(g, ch) = {}

\* the first match of the row-major scan
find_coordinates(g, ch) ==
    CHOOSE rc \in Matches(g, ch) :
        \A other \in Matches(g, ch) :
            rc[1] < other[1] \/ (rc[1] = other[1] /\ rc[2] <= other[2])

\* the rectangle rule swapping the rows instead of the columns
NewCoords_SwapRows(r1, c1, r2, c2) ==
    IF r1 = r2
    THEN <<r1, (c1 + 1) % GridSize, r2, (c2 + 1) % GridSize>>
    ELSE IF c1 = c2
         THEN <<(r1 + 1) % GridSize, c1, (r2 + 1) % GridSize, c2>>
         ELSE <<r2, c1, r1, c2>>

\* the swap written new_c1 = c2; new_c2 = new_c1
NewCoords_LostSwap(r1, c1, r2, c2) ==
    IF r1 = r2
    THEN <<r1, (c1 + 1) % GridSize, r2, (c2 + 1) % GridSize>>
    ELSE IF c1 = c2
         THEN <<(r1 + 1) % GridSize, c1, (r2 + 1) % GridSize, c2>>
         ELSE <<r1, c2, r2, c2>>

\* the column rule shifting up instead of down
NewCoords_ShiftUp(r1, c1, r2, c2) ==
    IF r1 = r2
    THEN <<r1, (c1 + 1) % GridSize, r2, (c2 + 1) % GridSize>>
    ELSE IF c1 = c2
         THEN <<(r1 + GridSize - 1) % GridSize, c1, (r2 + GridSize - 1) % GridSize, c2>>
         ELSE <<r1, c2, r2, c1>>

\* the coordinates the rules send (r1, c1) and (r2, c2) to
NewCoords(r1, c1, r2, c2) ==
    IF r1 = r2
    THEN <<r1, (c1 + 1) % GridSize, r2, (c2 + 1) % GridSize>>
    ELSE IF c1 = c2
         THEN <<(r1 + 1) % GridSize, c1, (r2 + 1) % GridSize, c2>>
         ELSE <<r1, c2, r2, c1>>

PairRaises(g, dg) == NotFound(g, dg[1]) \/ NotFound(g, dg[2])

encrypt_pair(g, dg) ==
    LET p1 == find_coordinates(g, dg[1])
        p2 == find_coordinates(g, dg[2])
        n  == NewCoords(p1[1], p1[2], p2[1], p2[2])
    IN  <<At(g, n[1], n[2]), At(g, n[3], n[4])>>

MaxPairKeyLen == 1

MaxCalls == 2

PairKeyChars == {"Z", "j", "é"}

PairKeywords == SeqsUpTo(PairKeyChars, MaxPairKeyLen) \cup NamedKeywords

\* the letters a caller hands to encrypt_pair: A-Z, J included
PairInputs == Range(UpperLetters) \X Range(UpperLetters)

InitPair ==
    /\ keyword \in PairKeywords
    /\ message_text = <<>>
    /\ Blank

\* encrypt_pair on a digraph of the caller's, then on what it returned
EncryptPairReturns ==
    /\ pc = "grid"
    /\ calls < MaxCalls
    /\ \E dg \in (IF calls = 0 THEN PairInputs ELSE {digraph}) :
          /\ ~ PairRaises(grid, dg)
          /\ digraph' = encrypt_pair(grid, dg)
          /\ first_digraph' = IF calls = 0 THEN dg ELSE first_digraph
    /\ calls' = calls + 1
    /\ UNCHANGED <<keyword, message_text, pc, grid, cleaned, i, prepared_chars,
                   digraphs, ciphertext, err>>

EncryptPairRaises ==
    /\ pc = "grid"
    /\ calls < MaxCalls
    /\ \E dg \in (IF calls = 0 THEN PairInputs ELSE {digraph}) :
          /\ PairRaises(grid, dg)
          /\ first_digraph' = IF calls = 0 THEN dg ELSE first_digraph
    /\ pc' = "raised"
    /\ err' = "LetterNotFound"
    /\ UNCHANGED <<keyword, message_text, grid, cleaned, i, prepared_chars,
                   digraphs, digraph, calls, ciphertext>>

NextPair ==
    CreateGridFails \/ CreateGridReturns \/ EncryptPairReturns \/ EncryptPairRaises

SpecPair == InitPair /\ [][NextPair]_vars

(***************************************************************************)
(* playfair_encrypt                                                        *)
(***************************************************************************)
RECURSIVE JoinPairs(_, _)
\* "".join(encrypt_pair(grid, dg) for dg in digraphs)
JoinPairs(g, dgs) ==
    IF dgs = <<>> THEN <<>>
    ELSE encrypt_pair(g, Head(dgs)) \o JoinPairs(g, Tail(dgs))

\* some encrypt_pair of the list comprehension raises
SomePairRaises(g, dgs) == \E k \in 1..Len(dgs) : PairRaises(g, dgs[k])

MaxEncKeyLen == 1

MaxEncMsgLen == 3

EncKeyChars == {"x", "J", "1", "é"}

EncMsgChars == {"A", "X", "j", " ", "é"}

EncKeywords == SeqsUpTo(EncKeyChars, MaxEncKeyLen) \cup NamedKeywords

EncMessages == SeqsUpTo(EncMsgChars, MaxEncMsgLen) \cup NamedMessages

InitEncrypt ==
    /\ keyword \in EncKeywords
    /\ message_text \in EncMessages
    /\ Blank

\* create_grid raises and the error propagates
EncryptInvalidKey ==
    /\ pc = "start"
    /\ InvalidKey(keyword)
    /\ pc' = "encrypt_raised"
    /\ err' = "InvalidKey"
    /\ UNCHANGED <<keyword, message_text, grid, cleaned, i, prepared_chars,
                   digraphs, digraph, first_digraph, calls, ciphertext>>

\* if not digraphs: return ""
EncryptEmpty ==
    /\ pc = "start"
    /\ ~ InvalidKey(keyword)
    /\ \E g \in {create_grid(keyword)}, dgs \in {prepare_message(message_text)} :
          /\ dgs = <<>>
          /\ grid' = g
          /\ digraphs' = dgs
          /\ ciphertext' = <<>>
    /\ pc' = "encrypt_returned"
    /\ UNCHANGED <<keyword, message_text, cleaned, i, prepared_chars,
                   digraph, first_digraph, calls, err>>

EncryptReturns ==
    /\ pc = "start"
    /\ ~ InvalidKey(keyword)
    /\ \E g \in {create_grid(keyword)}, dgs \in {prepare_message(message_text)} :
          /\ dgs # <<>>
          /\ ~ SomePairRaises(g, dgs)
          /\ grid' = g
          /\ digraphs' = dgs
          /\ ciphertext' = JoinPairs(g, dgs)
    /\ pc' = "encrypt_returned"
    /\ UNCHANGED <<keyword, message_text, cleaned, i, prepared_chars,
                   digraph, first_digraph, calls, err>>

\* find_coordinates raises inside the list comprehension
EncryptLetterNotFound ==
    /\ pc = "start"
    /\ ~ InvalidKey(keyword)
    /\ \E g \in {create_grid(keyword)}, dgs \in {prepare_message(message_text)} :
          /\ dgs # <<>>
          /\ SomePairRaises(g, dgs)
          /\ grid' = g
          /\ digraphs' = dgs
    /\ pc' = "encrypt_raised"
    /\ err' = "LetterNotFound"
    /\ UNCHANGED <<keyword, message_text, cleaned, i, prepared_chars,
                   digraph, first_digraph, calls, ciphertext>>

NextEncrypt ==
    \/ CreateGridFails
    \/ CreateGridReturns
    \/ EncryptInvalidKey
    \/ EncryptEmpty
    \/ EncryptReturns
    \/ EncryptLetterNotFound

SpecEncrypt == InitEncrypt /\ [][NextEncrypt]_vars

(***************************************************************************)
(* Properties                                                              *)
(***************************************************************************)
ReducedAlphabet ==
    {"A", "B", "C", "D", "E", "F", "G", "H", "I", "K", "L", "M", "N",
     "O", "P", "Q", "R", "S", "T", "U", "V", "W", "X", "Y", "Z"}

Letters == AsciiLetters \cup OtherLetters

HasLetter(text) == \E k \in 1..Len(text) : text[k] \in Letters

\* a text of letters A-Z in any case, mixed with non-letters
AsciiText(text) == \A k \in 1..Len(text) : text[k] \in AsciiLetters \cup NonLetters

\* row-major reading of a 5x5 grid
Flat(g) == [k \in 1..25 |-> g[((k - 1) \div 5) + 1][((k - 1) % 5) + 1]]

FirstIndex(s, ch) ==
    CHOOSE k \in 1..Len(s) : s[k] = ch /\ \A j \in 1..(k - 1) : s[j] # ch

FiveByFive(g) == Len(g) = 5 /\ \A r \in 1..5 : Len(g[r]) = 5

Complete(g) ==
    /\ FiveByFive(g)
    /\ \A l \in ReducedAlphabet :
          Cardinality({k \in 1..25 : Flat(g)[k] = l}) = 1

\* C1: for every keyword made of letters A-Z in any case and non-letters, with
\* at least one letter, the grid create_grid returns has 5 rows of 5 cells,
\* holds each of the 25 letters of the reduced alphabet exactly once, and
\* never holds J.
C1_GridComplete ==
    (pc = "grid" /\ AsciiText(keyword) /\ HasLetter(keyword)) =>
        /\ Complete(grid)
        /\ \A k \in 1..25 : Flat(grid)[k] # "J"

C1_Witness ==
    /\ pc = "grid"
    /\ keyword = <<"J", "i", "1">>
    /\ Flat(grid)[1] = "I"
    /\ Flat(grid)[10] = "K"

C3_DigraphsWellFormed ==
    pc = "returned" =>
        \A k \in 1..Len(digraphs) :
            /\ Len(digraphs[k]) = 2
            /\ digraphs[k][1] \in ReducedAlphabet
            /\ digraphs[k][2] \in ReducedAlphabet
            /\ digraphs[k][1] # digraphs[k][2]

\* The part of C3 that does not depend on the alphabet: every digraph has
\* two letters and they differ, for every message.
DigraphsPairedAndDistinct ==
    pc = "returned" =>
        \A k \in 1..Len(digraphs) :
            Len(digraphs[k]) = 2 /\ digraphs[k][1] # digraphs[k][2]

\* C3 for the messages of letters A-Z and non-letters.
DigraphsWellFormedOnAscii ==
    AsciiText(message_text) => C3_DigraphsWellFormed

PLAYFAIR == <<"P", "L", "A", "Y", "F", "A", "I", "R">>

WE_ARE_NOT_SAFE ==
    <<"W", "E", " ", "A", "R", "E", " ", "N", "O", "T", " ", "S", "A", "F", "E">>

HELLO == <<"H", "E", "L", "L", "O">>

C6_InvalidKey ==
    /\ (pc # "start" /\ ~ HasLetter(keyword)) =>
          /\ pc \in {"raised", "encrypt_raised"}
          /\ err = "InvalidKey"
          /\ grid = NoGrid
          /\ ciphertext = <<>>
    /\ HasLetter(keyword) => err # "InvalidKey"

C6_Witness ==
    /\ pc = "encrypt_raised"
    /\ err = "InvalidKey"
    /\ keyword = <<"1">>
    /\ ~ HasLetter(message_text)
    /\ message_text # <<>>

\* C7: for every keyword with a letter (letters A-Z in any case, mixed with
\* non-letters) and every message, playfair_encrypt
\* completes without error (the letter-not-found error is never raised), and
\* a message with no letters returns the empty string.
C7_NoError ==
    (/\ pc \in {"encrypt_returned", "encrypt_raised"}
     /\ AsciiText(keyword)
     /\ HasLetter(keyword)) =>
        /\ pc = "encrypt_returned"
        /\ err = "none"
        /\ ~ HasLetter(message_text) => ciphertext = <<>>

\* C7 for the messages of letters A-Z and non-letters.
NoErrorOnAscii == AsciiText(message_text) => C7_NoError

RowOf(g, ch) == CHOOSE r \in 0..4 : \E c \in 0..4 : g[r + 1][c + 1] = ch

ColOf(g, ch) == CHOOSE c \in 0..4 : \E r \in 0..4 : g[r + 1][c + 1] = ch

\* C8: on a complete grid, a digraph whose letters lie in different rows and
\* different columns is returned unchanged by two applications of
\* encrypt_pair.
C8_RectangleSelfInverse ==
    (/\ pc = "grid"
     /\ calls = 2
     /\ Complete(grid)
     /\ RowOf(grid, first_digraph[1]) # RowOf(grid, first_digraph[2])
     /\ ColOf(grid, first_digraph[1]) # ColOf(grid, first_digraph[2]))
        => digraph = first_digraph

C8_Witness ==
    /\ pc = "grid"
    /\ calls = 2
    /\ keyword = <<"M", "O", "N", "A", "R", "C", "H", "Y">>
    /\ first_digraph = <<"H", "E">>
    /\ digraph = <<"H", "E">>

SameLetter(s) == s # <<>> /\ \A k \in 1..Len(s) : s[k] = s[1]

FillerFor(c) == IF c = "X" THEN "Z" ELSE "X"

\* C10, the step (cleaned[i + 1] is the letter at the 0-based cursor i):
\* when the letter at the cursor equals its successor, the
\* buffer (of even length, so the two open a digraph) gains that letter and
\* its filler, and the cursor advances by one.
C10_RepeatStep ==
    [][(/\ pc = "scan"
        /\ i + 1 < Len(cleaned)
        /\ cleaned[i + 1] = cleaned[i + 2]) =>
            /\ Len(prepared_chars) % 2 = 0
            /\ prepared_chars' =
                 prepared_chars \o <<cleaned[i + 1], FillerFor(cleaned[i + 1])>>
            /\ i' = i + 1]_vars

\* C10, the result: a cleaned text of n >= 1 copies of one letter c yields
\* exactly n digraphs, each c followed by the filler for c.
C10_RunResult ==
    [](pc = "returned" /\ SameLetter(cleaned) =>
          digraphs = [k \in 1..Len(cleaned) |-> <<cleaned[1], FillerFor(cleaned[1])>>])

\* C10, the digraphs: the digraphs returned are the consecutive pairs of the
\* buffer, so what a step appends at an even length is a digraph.
C10_DigraphsAreBufferPairs ==
    [](pc = "returned" /\ cleaned # <<>> =>
          /\ 2 * Len(digraphs) = Len(prepared_chars)
          /\ \A k \in 1..Len(digraphs) :
                digraphs[k] = <<prepared_chars[2 * k - 1], prepared_chars[2 * k]>>)

====
